---- MODULE Spec2Model ----
(***************************************************************************)
(* call_depth.py: rank a function by the maximum depth of its cflow call   *)
(* tree among all functions ctags finds.  One run of main() is modelled as *)
(* a state machine (check arguments, enumerate, measure each function,     *)
(* summarize); max_call_depth_for is modelled on the characters of the     *)
(* cflow output.                                                           *)
(*                                                                         *)
(* Function names are natural numbers; their numeric order stands for the  *)
(* lexicographic order of the strings.  A text is a sequence of            *)
(* characters.                                                             *)
(***************************************************************************)
EXTENDS Integers, Sequences, FiniteSets

VARIABLES pc, argv, target, funcs, idx, depths, depth_map, calls,
          td, rank, pct, quart, verdict, top, out, exit_code, text, ret

vars == <<pc, argv, target, funcs, idx, depths, depth_map, calls,
          td, rank, pct, quart, verdict, top, out, exit_code, text, ret>>

(* ---------------- bounds of the model ---------------- *)

\* names 1..MaxName are the functions of the small repositories
MaxName == 3
\* a ctags listing of a small repository has at most MaxLines lines
MaxLines == 3
\* the deepest call tree cflow prints for a function
MaxDepth == 4
\* the longest cflow output max_call_depth_for is applied to on its own
MaxText == 6
\* the large repositories list TopN .. TopN + BigExtra functions
BigExtra == 4

(* ---------------- program constants ---------------- *)

\* the slice [:20] of the top list
TopN == 20
\* return None / depth_map.get(target, None)
None == -1
\* cflow's indentation step: leading // 2
Step == 2

(* ---------------- characters and texts ---------------- *)

X == "x"
SP == " "
NL == "\n"
TAB == "\t"

Alphabet == {X, SP, NL, TAB}

\* str.strip() with no argument strips these
IsSpace(c) == c \in {SP, NL, TAB}

RECURSIVE SeqsUpTo(_, _)
SeqsUpTo(S, n) ==
    IF n = 0 THEN {<<>>}
    ELSE LET shorter == SeqsUpTo(S, n - 1)
         IN  shorter \cup {Append(s, c) : s \in {t \in shorter : Len(t) = n - 1}, c \in S}

\* text.strip(): whitespace removed at both ends
RECURSIVE strip_left(_)
strip_left(s) ==
    IF s # <<>> /\ IsSpace(s[1]) THEN strip_left(Tail(s)) ELSE s

RECURSIVE strip_right(_)
strip_right(s) ==
    IF s # <<>> /\ IsSpace(s[Len(s)])
    THEN strip_right(SubSeq(s, 1, Len(s) - 1))
    ELSE s

strip(s) == strip_right(strip_left(s))

\* line.lstrip(' '): only space characters removed, at the left end
RECURSIVE lstrip_sp(_)
lstrip_sp(s) ==
    IF s # <<>> /\ s[1] = SP THEN lstrip_sp(Tail(s)) ELSE s

\* str.splitlines(): a line ends at a newline; a trailing newline opens no
\* further line
RECURSIVE splitlines_from(_, _, _, _)
splitlines_from(s, i, cur, acc) ==
    IF i > Len(s) THEN (IF cur = <<>> THEN acc ELSE Append(acc, cur))
    ELSE IF s[i] = NL THEN splitlines_from(s, i + 1, <<>>, Append(acc, cur))
    ELSE splitlines_from(s, i + 1, Append(cur, s[i]), acc)

splitlines(s) == splitlines_from(s, 1, <<>>, <<>>)

(* ---------------- max_call_depth_for ---------------- *)

\* the loop without `if i == 1: continue`: the root line is measured too
RECURSIVE depth_loop_with_root(_, _, _)
depth_loop_with_root(lines, i, maxdepth) ==
    IF i > Len(lines) THEN maxdepth
    ELSE LET line == lines[i]
             leading == Len(line) - Len(lstrip_sp(line))
             depth == leading \div Step
         IN  depth_loop_with_root(lines, i + 1,
                                  IF depth > maxdepth THEN depth ELSE maxdepth)

\* the loop of max_call_depth_for over enumerate(text.splitlines(), 1)
RECURSIVE depth_loop(_, _, _)
depth_loop(lines, i, maxdepth) ==
    IF i > Len(lines) THEN maxdepth
    ELSE IF i = 1 THEN depth_loop(lines, i + 1, maxdepth)
    ELSE LET line == lines[i]
             leading == Len(line) - Len(lstrip_sp(line))
             depth == leading \div Step
         IN  depth_loop(lines, i + 1, IF depth > maxdepth THEN depth ELSE maxdepth)

max_call_depth_for(t) ==
    IF strip(t) = <<>> THEN None
    ELSE depth_loop(splitlines(t), 1, 0)

(* ---------------- list_functions ---------------- *)

\* a line of the ctags listing after line.split(): <<>> for a blank line,
\* otherwise its tokens, the first of which is the symbol name
RECURSIVE first_tokens(_)
first_tokens(lines) ==
    IF lines = <<>> THEN <<>>
    ELSE IF lines[1] # <<>> THEN <<lines[1][1]>> \o first_tokens(Tail(lines))
    ELSE first_tokens(Tail(lines))

Range(s) == {s[i] : i \in 1..Len(s)}

\* sorted(...) of a set of names
RECURSIVE sorted_set(_)
sorted_set(S) ==
    IF S = {} THEN <<>>
    ELSE LET m == CHOOSE x \in S : \A y \in S : x <= y
         IN  <<m>> \o sorted_set(S \ {m})

\* insert x into the ascending list s behind its equals (stable)
RECURSIVE insert_asc(_, _)
insert_asc(s, x) ==
    IF s = <<>> THEN <<x>>
    ELSE IF x < s[1] THEN <<x>> \o s
    ELSE <<s[1]>> \o insert_asc(Tail(s), x)

\* the list without the sort
list_unsorted(s) == s

\* depths.sort()
RECURSIVE list_sort(_)
list_sort(s) ==
    IF s = <<>> THEN <<>>
    ELSE insert_asc(list_sort(SubSeq(s, 1, Len(s) - 1)), s[Len(s)])

\* sorted(funcs) without set(): a name listed twice is returned twice
list_functions_dup(files, ctags_lines) ==
    IF ~files THEN <<>>
    ELSE list_sort(first_tokens(ctags_lines))

\* files: whether the file listing (git ls-files, then find) is non-empty
list_functions(files, ctags_lines) ==
    IF ~files THEN <<>>
    ELSE sorted_set(Range(first_tokens(ctags_lines)))

(* ---------------- dict, sort, bisect ---------------- *)

\* a dict is the sequence of its <<key, value>> items in insertion order
DictKeys(m) == {m[i][1] : i \in 1..Len(m)}

\* depth_map.get(target, 0): an absent key reads as depth 0
DictGetZero(m, k, default) ==
    IF k \in DictKeys(m)
    THEN LET i == CHOOSE j \in 1..Len(m) : m[j][1] = k IN m[i][2]
    ELSE 0

DictGet(m, k, default) ==
    IF k \in DictKeys(m)
    THEN LET i == CHOOSE j \in 1..Len(m) : m[j][1] = k IN m[i][2]
    ELSE default

DictSet(m, k, v) ==
    IF k \in DictKeys(m)
    THEN [i \in 1..Len(m) |-> IF m[i][1] = k THEN <<k, v>> ELSE m[i]]
    ELSE Append(m, <<k, v>>)

\* key=lambda x: (x[1], x[0]): the depth not negated
KeyLessAscending(a, b) == \/ a[2] < b[2]
                          \/ (a[2] = b[2] /\ a[1] < b[1])

\* key=lambda x: (-x[1], x[0]) compared as tuples
KeyLess(a, b) == \/ -a[2] < -b[2]
                 \/ (a[2] = b[2] /\ a[1] < b[1])

RECURSIVE insert_by_key(_, _)
insert_by_key(s, x) ==
    IF s = <<>> THEN <<x>>
    ELSE IF KeyLess(x, s[1]) THEN <<x>> \o s
    ELSE <<s[1]>> \o insert_by_key(Tail(s), x)

RECURSIVE sorted_by_key(_)
sorted_by_key(s) ==
    IF s = <<>> THEN <<>>
    ELSE insert_by_key(sorted_by_key(SubSeq(s, 1, Len(s) - 1)), s[Len(s)])

Min(a, b) == IF a < b THEN a ELSE b

\* sorted(depth_map.items(), key=...)[:20]
top_list(m) ==
    LET srt == sorted_by_key(m)
    IN  SubSeq(srt, 1, Min(TopN, Len(srt)))

\* bisect.bisect_right(a, x) with 0-based lo, hi as in the library
RECURSIVE bisect_right_from(_, _, _, _)
bisect_right_from(a, x, lo, hi) ==
    IF lo < hi
    THEN LET mid == (lo + hi) \div 2
         IN  IF x < a[mid + 1]
             THEN bisect_right_from(a, x, lo, mid)
             ELSE bisect_right_from(a, x, mid + 1, hi)
    ELSE lo

\* bisect.bisect_left(a, x)
RECURSIVE bisect_left_from(_, _, _, _)
bisect_left_from(a, x, lo, hi) ==
    IF lo < hi
    THEN LET mid == (lo + hi) \div 2
         IN  IF a[mid + 1] < x
             THEN bisect_left_from(a, x, mid + 1, hi)
             ELSE bisect_left_from(a, x, lo, mid)
    ELSE lo

bisect_left(a, x) == bisect_left_from(a, x, 0, Len(a))

bisect_right(a, x) == bisect_right_from(a, x, 0, Len(a))

(* ---------------- the report ---------------- *)

\* 100.0 * rank / len(depths), as the fraction <<numerator, denominator>>
percentile(r, n) == <<100 * r, n>>

\* f"{v:.1f}" of the fraction num/den (num >= 0): the number of tenths,
\* rounded to nearest, a tie to the even tenth
fmt1(num, den) ==
    LET q == (10 * num) \div den
        r == (10 * num) % den
    IN  IF 2 * r < den THEN q
        ELSE IF 2 * r > den THEN q + 1
        ELSE IF q % 2 = 0 THEN q ELSE q + 1

\* int(0.25*len(depths)), int(0.50*len(depths)), int(0.75*len(depths))
qindex(p, n) == (p * n) \div 100

\* depths[int(p*len(depths))], the list being 0-based in the code
quartile(d, p) == d[qindex(p, Len(d)) + 1]

\* the comparisons made strict
classify_strict(t, q1, q3) ==
    IF t > q3 THEN "deep"
    ELSE IF t < q1 THEN "shallow"
    ELSE "mid-range"

\* the two tests in the other order
classify_shallow_first(t, q1, q3) ==
    IF t <= q1 THEN "shallow"
    ELSE IF t >= q3 THEN "deep"
    ELSE "mid-range"

\* the if / elif / else that prints the interpretation
classify(t, q1, q3) ==
    IF t >= q3 THEN "deep"
    ELSE IF t <= q1 THEN "shallow"
    ELSE "mid-range"

\* the lines "{d:>3}  {name}" of the top list
top_lines(t) == [i \in 1..Len(t) |-> <<"top", t[i][2], t[i][1]>>]

(* ---------------- the inputs of a run ---------------- *)

\* the names a target argument is drawn from: 0 is a name ctags never lists
Targets == 0..(MaxName + 1)

\* sys.argv: the program name, then the target when it is given
Argvs == {<<"call_depth.py">>} \cup {<<"call_depth.py", t>> : t \in Targets}

\* the split lines of a ctags listing of a small repository
CtagsLine == {<<>>} \cup {<<n>> : n \in 1..MaxName}

SmallListings == SeqsUpTo(CtagsLine, MaxLines)

\* a large repository lists the names MaxName+1 .. MaxName+len, last first
BigListing(len) == [i \in 1..len |-> <<MaxName + len + 1 - i>>]

BigListings == {BigListing(len) : len \in TopN..(TopN + BigExtra)}

Listings == SmallListings \cup BigListings

RECURSIVE Spaces(_)
Spaces(n) == IF n = 0 THEN <<>> ELSE <<SP>> \o Spaces(n - 1)

\* the lines below the root of a call chain d levels deep, from level k on
RECURSIVE Chain(_, _)
Chain(k, d) ==
    IF k > d THEN <<>>
    ELSE Spaces(Step * k) \o <<X, NL>> \o Chain(k + 1, d)

\* cflow's output for a function whose deepest call chain has d levels
Tree(d) == <<X, NL>> \o Chain(1, d)

\* what cflow may print for a function of a small repository: nothing,
\* white space only, or a tree
Outputs == {<<>>, <<SP, NL>>} \cup {Tree(d) : d \in 0..MaxDepth}

\* what cflow prints for a function of a large repository
BigOutput(f) == IF f % 7 = 0 THEN <<>> ELSE Tree(f % (MaxDepth + 1))

CflowOutputs(f) == IF f <= MaxName THEN Outputs ELSE {BigOutput(f)}

(* ---------------- main() ---------------- *)

Init ==
    /\ pc = "start"
    /\ argv \in Argvs
    /\ target = None
    /\ funcs = <<>>
    /\ idx = 0
    /\ depths = <<>>
    /\ depth_map = <<>>
    /\ calls = <<>>
    /\ td = None
    /\ rank = None
    /\ pct = <<>>
    /\ quart = <<>>
    /\ verdict = ""
    /\ top = <<>>
    /\ out = <<>>
    /\ exit_code = None
    /\ text = <<>>
    /\ ret = None

\* if len(sys.argv) < 2: print(USAGE); sys.exit(1)
CheckArgs ==
    /\ pc = "start"
    /\ IF Len(argv) < 2
       THEN /\ out' = Append(out, <<"usage">>)
            /\ exit_code' = 1
            /\ pc' = "done"
            /\ UNCHANGED target
       ELSE /\ target' = argv[2]
            /\ pc' = "enumerate"
            /\ UNCHANGED <<out, exit_code>>
    /\ UNCHANGED <<argv, funcs, idx, depths, depth_map, calls, td, rank, pct,
                   quart, verdict, top, text, ret>>

\* funcs = list_functions(...); if not funcs: print; sys.exit(2)
Enumerate ==
    /\ pc = "enumerate"
    /\ \E files \in BOOLEAN, listing \in Listings :
          funcs' = list_functions(files, listing)
    /\ IF funcs' = <<>>
       THEN /\ out' = Append(out, <<"no_functions">>)
            /\ exit_code' = 2
            /\ pc' = "done"
            /\ UNCHANGED idx
       ELSE /\ idx' = 1
            /\ pc' = "measure"
            /\ UNCHANGED <<out, exit_code>>
    /\ UNCHANGED <<argv, target, depths, depth_map, calls, td, rank, pct,
                   quart, verdict, top, text, ret>>

\* `if d:` in place of `if d is not None:`: depth 0 is dropped as well
is_truthy(d) == d # None /\ d # 0

\* if d is not None
is_measured(d) == d # None

\* one iteration of: for f in funcs: d = max_call_depth_for(f, src_root) ...
Measure ==
    /\ pc = "measure"
    /\ idx <= Len(funcs)
    /\ \E t \in CflowOutputs(funcs[idx]) :
          LET f == funcs[idx]
              d == max_call_depth_for(t)
          IN  /\ text' = t
              /\ ret' = d
              /\ calls' = Append(calls, <<f, t>>)
              /\ IF is_measured(d)
                 THEN /\ depths' = Append(depths, d)
                      /\ depth_map' = DictSet(depth_map, f, d)
                 ELSE UNCHANGED <<depths, depth_map>>
    /\ idx' = idx + 1
    /\ pc' = IF idx = Len(funcs) THEN "summarize" ELSE "measure"
    /\ UNCHANGED <<argv, target, funcs, td, rank, pct, quart, verdict, top,
                   out, exit_code>>

\* the report of a run whose target was measured
Report(d, m, t, tdepth) ==
    LET n == Len(d)
        r == bisect_right(d, tdepth)
        p == percentile(r, n)
        q1 == quartile(d, 25)
        q2 == quartile(d, 50)
        q3 == quartile(d, 75)
        v == classify(tdepth, q1, q3)
        tl == top_list(m)
    IN  [rank |-> r, pct |-> p, quart |-> <<q1, q2, q3>>, verdict |-> v,
         top |-> tl,
         out |-> << <<"header">>, <<"target", t>>, <<"depth", tdepth>>,
                    <<"position", fmt1(100 * n - p[1], p[2]), fmt1(p[1], p[2])>>,
                    <<"count", n>>, <<"blank">>,
                    <<"quartiles", q1, q2, q3>>, <<"verdict", v>>,
                    <<"top_header">> >> \o top_lines(tl)]

\* everything of main() behind the measurement loop
Summarize ==
    /\ pc = "summarize"
    /\ pc' = "done"
    /\ IF depths = <<>>
       THEN /\ out' = Append(out, <<"no_depths">>)
            /\ exit_code' = 3
            /\ UNCHANGED <<depths, td, rank, pct, quart, verdict, top>>
       ELSE /\ depths' = list_sort(depths)
            /\ td' = DictGet(depth_map, target, None)
            /\ IF td' = None
               THEN /\ top' = top_list(depth_map)
                    /\ out' = out \o << <<"no_target", target>>, <<"top_header">> >>
                                  \o top_lines(top')
                    /\ exit_code' = 4
                    /\ UNCHANGED <<rank, pct, quart, verdict>>
               ELSE LET rep == Report(depths', depth_map, target, td')
                    IN  /\ rank' = rep.rank
                        /\ pct' = rep.pct
                        /\ quart' = rep.quart
                        /\ verdict' = rep.verdict
                        /\ top' = rep.top
                        /\ out' = out \o rep.out
                        /\ exit_code' = 0
    /\ UNCHANGED <<argv, target, funcs, idx, depth_map, calls, text, ret>>

Next == CheckArgs \/ Enumerate \/ Measure \/ Summarize

Spec == Init /\ [][Next]_vars

(* ---------------- max_call_depth_for on its own ---------------- *)

InitDepth ==
    /\ pc = "call"
    /\ text \in SeqsUpTo(Alphabet, MaxText)
    /\ ret = None
    /\ argv = <<"call_depth.py">>
    /\ target = None
    /\ funcs = <<>>
    /\ idx = 0
    /\ depths = <<>>
    /\ depth_map = <<>>
    /\ calls = <<>>
    /\ td = None
    /\ rank = None
    /\ pct = <<>>
    /\ quart = <<>>
    /\ verdict = ""
    /\ top = <<>>
    /\ out = <<>>
    /\ exit_code = None

\* p.stdout is `text`; the call returns `ret`
CallDepth ==
    /\ pc = "call"
    /\ ret' = max_call_depth_for(text)
    /\ pc' = "returned"
    /\ UNCHANGED <<argv, target, funcs, idx, depths, depth_map, calls, td,
                   rank, pct, quart, verdict, top, out, exit_code, text>>

NextDepth == CallDepth

SpecDepth == InitDepth /\ [][NextDepth]_vars

TypeOK ==
    /\ pc \in {"start", "enumerate", "measure", "summarize", "done", "call", "returned"}
    /\ exit_code \in {None, 0, 1, 2, 3, 4}

(* ---------------- vocabulary of the properties ---------------- *)

\* the text holds nothing but white space (the empty text included)
AllWhitespace(t) == \A i \in 1..Len(t) : IsSpace(t[i])

\* the positions at which a line other than the first begins
LineStarts(t) == {p \in 2..Len(t) : t[p - 1] = NL}

\* the number of space characters in a row from position p on
LeadingAt(t, p) == Cardinality({k \in p..Len(t) : \A j \in p..k : t[j] = SP})

SetMax(S) == CHOOSE x \in S : \A y \in S : y <= x

\* the deepest indentation level below the first line, 0 without such a line
DeepestLevel(t) == SetMax({0} \cup {LeadingAt(t, p) \div 2 : p \in LineStarts(t)})

\* the run has left the measurement loop
AfterLoop == pc = "summarize" \/ (pc = "done" /\ exit_code \in {0, 3, 4})

\* the run ended with the full report
Reported == pc = "done" /\ exit_code = 0

\* the calls of the call-graph tool whose output was usable
MeasuredCalls == {i \in 1..Len(calls) : ~AllWhitespace(calls[i][2])}

CountOf(s, v) == Cardinality({i \in 1..Len(s) : s[i] = v})

IsTopLine(l) == l[1] = "top"

IsVerdictLine(l) == l[1] = "verdict"

\* the (function, depth) pairs of the printed top list, in printed order
PrintedTop ==
    LET ls == SelectSeq(out, IsTopLine)
    IN  [i \in 1..Len(ls) |-> <<ls[i][3], ls[i][2]>>]

(* ---------------- C1 ---------------- *)

\* C1: with the target in the depth map, rank is the number of measured
\* depths less than or equal to the target's depth, ties included, and the
\* percentile is 100 * rank / (number of measured depths); for the depths
\* [0,2,4] and a target of depth 2, rank is 2 and the percentile prints as
\* 66.7.
C1_RankAndPercentile ==
    Reported =>
        LET n == Len(depths)
            atOrBelow == Cardinality({i \in 1..n : depths[i] <= td})
        IN  /\ td = depth_map[CHOOSE i \in 1..Len(depth_map) :
                                 depth_map[i][1] = target][2]
            /\ rank = atOrBelow
            /\ pct[2] # 0
            /\ pct[1] * n = 100 * atOrBelow * pct[2]
            /\ (depths = <<0, 2, 4>> /\ td = 2) =>
                  /\ rank = 2
                  /\ \E i \in 1..Len(out) : out[i] = <<"position", 333, 667>>

C1_Witness == Reported /\ depths = <<0, 2, 4>> /\ td = 2

(* ---------------- C2 ---------------- *)

\* C2: with the target in the depth map, rank lies in 1..(number of
\* measured depths) and the percentile in [0, 100], whichever functions were
\* enumerated and whichever of them were unmeasurable.
C2_RankAndPercentileBounds ==
    Reported =>
        /\ rank >= 1
        /\ rank <= Len(depths)
        /\ pct[2] > 0
        /\ 0 <= pct[1]
        /\ pct[1] <= 100 * pct[2]
        /\ \A i \in 1..Len(out) :
              out[i][1] = "position" =>
                 /\ out[i][2] \in 0..1000
                 /\ out[i][3] \in 0..1000

C2_Witness ==
    /\ Reported
    /\ rank = 1
    /\ Len(depths) >= 2
    /\ Len(calls) > Len(depths)

(* ---------------- C3 ---------------- *)

\* C3: the quartiles are read at the indices int(0.25*n), int(0.50*n),
\* int(0.75*n) of the ascending list; each index is within 0..n-1 (n = 1
\* included) and Q1 <= Q2 <= Q3.
C3_QuartilesOrdered ==
    Reported =>
        LET n == Len(depths)
            i1 == (25 * n) \div 100
            i2 == (50 * n) \div 100
            i3 == (75 * n) \div 100
        IN  /\ n >= 1
            /\ {i1, i2, i3} \subseteq 0..(n - 1)
            /\ quart = <<depths[i1 + 1], depths[i2 + 1], depths[i3 + 1]>>
            /\ quart[1] <= quart[2]
            /\ quart[2] <= quart[3]
            /\ \E i \in 1..Len(out) :
                  out[i] = <<"quartiles", quart[1], quart[2], quart[3]>>

C3_Witness == Reported /\ quart[1] < quart[2] /\ quart[2] < quart[3]

(* ---------------- C4 ---------------- *)

\* C4 as stated: a target whose depth equals Q1 is classified "shallow",
\* also when Q1 = Q3.
C4_ShallowAtQ1 ==
    (Reported /\ td = quart[1]) => verdict = "shallow"

\* C4 as amended: a target whose depth equals Q1 is classified "shallow"
\* when Q1 < Q3, and "deep" when Q1 = Q3, the test against Q3 being made
\* first.
C4_ShallowAtQ1BelowQ3 ==
    (Reported /\ td = quart[1]) =>
        /\ quart[1] < quart[3] => verdict = "shallow"
        /\ quart[1] = quart[3] => verdict = "deep"
        /\ \E i \in 1..Len(out) : out[i] = <<"verdict", verdict>>

C4_Witness ==
    /\ Reported
    /\ td = quart[1]
    /\ quart[1] = quart[3]
    /\ Len(depths) >= 2
    /\ verdict = "deep"

(* ---------------- C5 ---------------- *)

\* C5: with the target present exactly one classification is printed:
\* "deep" exactly when the target's depth is at least Q3, otherwise
\* "shallow" when it is at most Q1, otherwise "mid-range".
C5_Classification ==
    Reported =>
        /\ SelectSeq(out, IsVerdictLine) = << <<"verdict", verdict>> >>
        /\ verdict \in {"deep", "shallow", "mid-range"}
        /\ verdict = "deep" <=> td >= quart[3]
        /\ verdict = "shallow" <=> (td < quart[3] /\ td <= quart[1])
        /\ verdict = "mid-range" <=> (quart[1] < td /\ td < quart[3])

C5_Witness == Reported /\ td = quart[3] /\ quart[1] < quart[3] /\ verdict = "deep"

(* ---------------- C6 ---------------- *)

\* C6: a run that measured a function ends with exit 0 or exit 4 and prints
\* a top list of min(20, measured functions) distinct measured (function,
\* depth) pairs, by descending depth and, among equal depths, ascending
\* name; no measured function left out is deeper than a listed one.
C6_TopList ==
    (pc = "done" /\ depth_map # <<>>) =>
        LET listed == PrintedTop
            n == Len(listed)
        IN  /\ exit_code \in {0, 4}
            /\ CountOf(out, <<"top_header">>) = 1
            /\ n = Min(20, Cardinality(DictKeys(depth_map)))
            /\ \A i \in 1..n : listed[i] \in Range(depth_map)
            /\ \A i, j \in 1..n : i < j =>
                  \/ listed[i][2] > listed[j][2]
                  \/ (listed[i][2] = listed[j][2] /\ listed[i][1] < listed[j][1])
            /\ \A e \in Range(depth_map) \ Range(listed) :
                  \A i \in 1..n : e[2] <= listed[i][2]

C6_Witness ==
    /\ pc = "done"
    /\ exit_code = 4
    /\ Len(depth_map) > 20
    /\ Len(PrintedTop) = 20

(* ---------------- C7 ---------------- *)

\* the exit code the order of the failing conditions asks for
ExpectedExit ==
    IF Len(argv) < 2 THEN 1
    ELSE IF funcs = <<>> THEN 2
    ELSE IF MeasuredCalls = {} THEN 3
    ELSE IF \A i \in MeasuredCalls : calls[i][1] # argv[2] THEN 4
    ELSE 0

\* C7: a run ends with exactly one outcome, that of the first failing
\* condition: no target argument, 1; no function enumerated, 2; every
\* function unmeasurable, 3; target without entry in the depth map, 4;
\* otherwise the full report and 0.
C7_ExitOutcome ==
    /\ pc # "done" => exit_code = None
    /\ pc = "done" =>
          /\ exit_code = ExpectedExit
          /\ exit_code = 1 => out = << <<"usage">> >>
          /\ exit_code = 2 => out = << <<"no_functions">> >>
          /\ exit_code = 3 => out = << <<"no_depths">> >>
          /\ exit_code = 4 => out[1] = <<"no_target", argv[2]>>
          /\ exit_code = 0 =>
                /\ out[1] = <<"header">>
                /\ CountOf(out, <<"top_header">>) = 1
                /\ \A tag \in {"target", "depth", "position", "count",
                               "quartiles", "verdict"} :
                      \E i \in 1..Len(out) : out[i][1] = tag

C7_Witness ==
    /\ pc = "done"
    /\ exit_code = 4
    /\ \E i \in 1..Len(calls) : calls[i][1] = argv[2]
    /\ MeasuredCalls # {}

(* ---------------- C8 ---------------- *)

\* C8: max_call_depth_for returns None exactly when the output is empty or
\* white space only; otherwise it returns the largest (leading spaces) \div 2
\* over the lines after the first, 0 when there is no such line; the first
\* line's indentation does not count and the result is not negative.
C8_MaxCallDepth ==
    pc = "returned" =>
        /\ ret = None <=> AllWhitespace(text)
        /\ ~AllWhitespace(text) =>
              /\ ret = DeepestLevel(text)
              /\ ret >= 0
              /\ LineStarts(text) = {} => ret = 0

C8_Witness ==
    /\ pc = "returned"
    /\ Len(text) >= 1
    /\ text[1] = SP
    /\ ret = 1

(* ---------------- C9 ---------------- *)

\* C9: behind the measurement loop the keys of the depth map are the
\* enumerated functions whose measurement was usable (depth 0 is kept, an
\* unmeasurable function has no entry and the loop goes on), and the depth
\* list holds the values of the map, each as often as the map does, in
\* ascending order once sorted.
C9_DepthMapAndList ==
    AfterLoop =>
        /\ Len(calls) = Len(funcs)
        /\ DictKeys(depth_map) = {calls[i][1] : i \in MeasuredCalls}
        /\ DictKeys(depth_map) \subseteq Range(funcs)
        /\ Cardinality(DictKeys(depth_map)) = Len(depth_map)
        /\ \A i \in 1..Len(calls) :
              calls[i][2] = Tree(0) => <<calls[i][1], 0>> \in Range(depth_map)
        /\ Len(depths) = Len(depth_map)
        /\ \A v \in 0..(MaxDepth + 1) :
              CountOf(depths, v) =
                 Cardinality({i \in 1..Len(depth_map) : depth_map[i][2] = v})
        /\ \A i \in 1..Len(depths) : depths[i] \in 0..MaxDepth
        /\ pc = "done" =>
              \A i \in 1..(Len(depths) - 1) : depths[i] <= depths[i + 1]

C9_Witness ==
    /\ Reported
    /\ Len(calls) > Len(depth_map)
    /\ \E i \in 1..Len(depth_map) : depth_map[i][2] = 0
    /\ Len(depths) >= 2
    /\ depths[1] < depths[Len(depths)]

(* ---------------- C10 ---------------- *)

\* C10: a run enumerates, then measures, then reports: the call-graph tool
\* is called once for each enumerated name, in the enumerator's ascending
\* order, never before the enumeration has returned a name; nothing of the
\* report is printed before the last call has returned; and a run whose
\* enumeration is empty ends with exit 2 without a call.
C10_StepOrder ==
    /\ Len(calls) <= Len(funcs)
    /\ \A i \in 1..Len(calls) : calls[i][1] = funcs[i]
    /\ \A i, j \in 1..Len(funcs) : i < j => funcs[i] < funcs[j]
    /\ pc \in {"start", "enumerate"} => (calls = <<>> /\ funcs = <<>>)
    /\ pc = "measure" => (Len(calls) = idx - 1 /\ idx <= Len(funcs))
    /\ out # <<>> =>
          /\ pc = "done"
          /\ exit_code \in {1, 2} \/ Len(calls) = Len(funcs)
    /\ (pc = "done" /\ exit_code \in {0, 3, 4}) =>
          (Len(funcs) >= 1 /\ Len(calls) = Len(funcs))
    /\ (pc = "done" /\ Len(argv) >= 2 /\ funcs = <<>>) =>
          (exit_code = 2 /\ calls = <<>>)
    /\ exit_code \in {1, 2} => calls = <<>>

C10_Witness ==
    /\ Reported
    /\ Len(calls) >= 3
    /\ Len(calls) = Len(funcs)

====
